---- MODULE Spec2Model ----
(***************************************************************************)
(* The banner ledger of src/banner_ledger.py: the in-memory record         *)
(* collection of one BannerLedger instance with its two lookup indexes,    *)
(* the CSV store it is loaded from and saved to, and the operations        *)
(* observe_image, save and construction (load).                            *)
(*                                                                         *)
(* Image bytes are the numbers 1..NumImages; ImageTable gives for each     *)
(* what hashlib.md5 and imagehash.phash compute on it (the 10-hex-digit    *)
(* digest, and the perceptual hash as the number its hex string denotes),  *)
(* or that PIL cannot decode it.  Dates are the numbers 1..MaxDate, in     *)
(* the order of their ISO YYYY-MM-DD strings, which is the order Python's  *)
(* min, max and sorted use on them.                                        *)
(***************************************************************************)
EXTENDS Integers, Sequences, FiniteSets, TLC

\* ---------------------------------------------------------------- bounds
NumImages == 4
MaxDate == 3
MaxObs == 5
MaxDateObs == 3
MaxCtxObs == 3
MaxStoreObs == 2
MaxNearObs == 4
MaxRunObs == 3
MaxSaveFails == 1

\* ------------------------------------------------------ program constants
MAX_HASH_DISTANCE == 6

\* The empty string in a date column and in the phash column.
NoDate == 0
NoHash == -1

\* What is left of a date, and of the hex string of a hash, when the text of
\* the file ends inside it: a proper prefix, which is not empty, sorts below
\* every date, and is the hex of no 64-bit hash.
CutDate == -1
CutHash == -2

\* What the fingerprinting functions compute on each image.  Hashes 0 and 63
\* are exactly MAX_HASH_DISTANCE bits apart, 0 and 127 one bit more, 63 and
\* 127 one bit; bytes 4 are not an image (PIL raises); bytes 5 are another
\* encoding of image 2, with the same perceptual hash, and bytes 8 another
\* encoding of image 1.  Hash 15 is four bits from 0 and four bits from 255,
\* which are eight bits apart.
ImageTable ==
  << [md5 |-> "a000000001", ph |-> 0,   ok |-> TRUE],
     [md5 |-> "b000000002", ph |-> 63,  ok |-> TRUE],
     [md5 |-> "c000000003", ph |-> 127, ok |-> TRUE],
     [md5 |-> "d000000004", ph |-> NoHash, ok |-> FALSE],
     [md5 |-> "e000000005", ph |-> 63,  ok |-> TRUE],
     [md5 |-> "f000000006", ph |-> 15, ok |-> TRUE],
     [md5 |-> "g000000007", ph |-> 255, ok |-> TRUE],
     [md5 |-> "h000000008", ph |-> 0, ok |-> TRUE] >>

ImgBytes == 1..NumImages
AllImages == 1..Len(ImageTable)
Dates == 1..MaxDate
Sites == {"s1"}

\* The runs that follow one banner over the days: its first image, a
\* recompressed variant of it, and an image of another banner.
DateImgs == {1, 2, 3}
OneDay == {1}

\* The runs that exercise the near-match scan: images at and just beyond the
\* threshold of each other, one equally far from two others, and a second
\* encoding of the first.
NearImgs == {1, 2, 3, 6, 7, 8}

\* What a scraper downloads in a run: two banners and a file that is not an
\* image.
RunImgs == {1, 3, 4}

\* ------------------------------------------------------------- helpers
_md5_short(b) == ImageTable[b].md5

Decodable(b) == ImageTable[b].ok

_phash_hex(b) == ImageTable[b].ph

_alloc_banner_id(md5_short) == "bn_" \o md5_short

\* imagehash: hex_to_hash(a) - hex_to_hash(b), the number of differing bits.
RECURSIVE _phash_dist(_, _)
_phash_dist(a, b) ==
  IF a = 0 /\ b = 0 THEN 0
  ELSE (IF a % 2 = b % 2 THEN 0 ELSE 1) + _phash_dist(a \div 2, b \div 2)

\* rows is a Python dict: a sequence of records in insertion order, keyed by
\* their banner_id.
Keys(rs) == {rs[i].banner_id : i \in 1..Len(rs)}

RowIndex(rs, bid) == CHOOSE i \in 1..Len(rs) : rs[i].banner_id = bid

RowOf(rs, bid) == rs[RowIndex(rs, bid)]

\* rows[bid] = row: replaces in place an existing key, appends a new one.
SetRow(rs, bid, row) ==
  IF bid \in Keys(rs) THEN [rs EXCEPT ![RowIndex(rs, bid)] = row]
  ELSE Append(rs, row)

\* d[k] = v on an index.
SetKey(d, k, v) == (k :> v) @@ d

MinOf(a, b) == IF a <= b THEN a ELSE b

MaxOf(a, b) == IF a >= b THEN a ELSE b

\* x or seen_date, on a date column.
OrDate(x, seen_date) == IF x = NoDate THEN seen_date ELSE x

\* set(filter(None, s.split(";"))) on the seen_dates column.
SplitDates(s) == {s[i] : i \in 1..Len(s)} \ {NoDate}

\* A changed join: the dates are written latest first.
RECURSIVE JoinDescending(_)
JoinDescending(S) ==
  IF S = {} THEN << >>
  ELSE LET m == CHOOSE x \in S : \A y \in S : x >= y
       IN << m >> \o JoinDescending(S \ {m})

\* ";".join(sorted(prev))
RECURSIVE JoinSorted(_)
JoinSorted(S) ==
  IF S = {} THEN << >>
  ELSE LET m == CHOOSE x \in S : \A y \in S : x <= y
       IN << m >> \o JoinSorted(S \ {m})

\* A changed scan: a record as near as the best so far takes its place, so
\* the last of the nearest records wins.
RECURSIVE ScanNearLastWins(_, _, _, _, _)
ScanNearLastWins(rs, i, phash_hex, best_id, best_dist) ==
  IF i > Len(rs) THEN [id |-> best_id, dist |-> best_dist]
  ELSE IF rs[i].phash = NoHash
       THEN ScanNearLastWins(rs, i + 1, phash_hex, best_id, best_dist)
       ELSE LET d == _phash_dist(phash_hex, rs[i].phash)
            IN IF d <= best_dist
               THEN ScanNearLastWins(rs, i + 1, phash_hex, rs[i].banner_id, d)
               ELSE ScanNearLastWins(rs, i + 1, phash_hex, best_id, best_dist)

\* The scan of _find_by_phash_near over rows[i..], carrying (best_id,
\* best_dist); best_id "" stands for None.
RECURSIVE ScanNear(_, _, _, _, _)
ScanNear(rs, i, phash_hex, best_id, best_dist) ==
  IF i > Len(rs) THEN [id |-> best_id, dist |-> best_dist]
  ELSE IF rs[i].phash = NoHash
       THEN ScanNear(rs, i + 1, phash_hex, best_id, best_dist)
       ELSE LET d == _phash_dist(phash_hex, rs[i].phash)
            IN IF d < best_dist
               THEN ScanNear(rs, i + 1, phash_hex, rs[i].banner_id, d)
               ELSE ScanNear(rs, i + 1, phash_hex, best_id, best_dist)

\* A changed _find_by_phash_near: the threshold itself is refused.
FindNearStrict(rs, byph, phash_hex) ==
  IF phash_hex \in DOMAIN byph THEN byph[phash_hex]
  ELSE LET best == ScanNear(rs, 1, phash_hex, "", 1000000000)
       IN IF best.id # "" /\ best.dist < MAX_HASH_DISTANCE THEN best.id
          ELSE ""

\* A changed _find_by_phash_near: one bit beyond the threshold is accepted.
FindNearLoose(rs, byph, phash_hex) ==
  IF phash_hex \in DOMAIN byph THEN byph[phash_hex]
  ELSE LET best == ScanNear(rs, 1, phash_hex, "", 1000000000)
       IN IF best.id # "" /\ best.dist <= MAX_HASH_DISTANCE + 1 THEN best.id
          ELSE ""

\* The banner_id of the nearest record, or "" for None.
_find_by_phash_near(rs, byph, phash_hex) ==
  IF phash_hex \in DOMAIN byph THEN byph[phash_hex]
  ELSE LET best == ScanNear(rs, 1, phash_hex, "", 1000000000)
       IN IF best.id # "" /\ best.dist <= MAX_HASH_DISTANCE THEN best.id
          ELSE ""

\* ------------------------------------------------------ hosts and URLs
\* A host (or netloc) string is the sequence of its dot-separated labels,
\* "" the empty sequence; a port stays in the last label ("com:8080"), as
\* in the string.  A URL or hint string is scheme, "//" netloc when it has
\* slashes, then text: a URL's path, or all of a hint that is a bare name.
Url(scheme, netloc, path) ==
  [scheme |-> scheme, slashes |-> TRUE, netloc |-> netloc, text |-> << path >>]

Bare(labels) ==
  [scheme |-> "", slashes |-> FALSE, netloc |-> << >>, text |-> labels]

\* None, or the empty string.
NoText == Bare(<< >>)

IsEmptyText(u) == u.scheme = "" /\ ~u.slashes /\ u.text = << >>

\* str.lower on the labels the inputs use.
Lower(l) ==
  CASE l = "Shop" -> "shop"
    [] l = "NEWS" -> "news"
    [] OTHER -> l

LowerHost(h) == [i \in 1..Len(h) |-> Lower(h[i])]

\* urlparse(u).netloc
Netloc(u) == IF u.slashes THEN u.netloc ELSE << >>

\* urlparse raises ValueError on a netloc with an unclosed bracket.
UrlparseRaises(u) == u.slashes /\ \E i \in 1..Len(u.netloc) : u.netloc[i] = "[::1"

_host_from_url(url) ==
  IF IsEmptyText(url) \/ UrlparseRaises(url) THEN << >>
  ELSE LowerHost(Netloc(url))

\* The whole string as labels: a scheme without slashes runs into the
\* text, one with slashes into the first label of the netloc, whose last
\* label runs into the path.
WholeText(u) ==
  IF ~u.slashes
  THEN IF u.scheme = "" THEN u.text
       ELSE IF u.text = << >> THEN << u.scheme \o ":" >>
            ELSE << u.scheme \o ":" \o u.text[1] >> \o Tail(u.text)
  ELSE LET pre == IF u.scheme = "" THEN "//" ELSE u.scheme \o "://"
           n == u.netloc
       IN IF n = << >> THEN << pre \o u.text[1] >>
          ELSE IF Len(n) = 1 THEN << pre \o n[1] \o u.text[1] >>
               ELSE << pre \o n[1] >> \o SubSeq(n, 2, Len(n) - 1)
                      \o << n[Len(n)] \o u.text[1] >>

_host_from_hint(hint) ==
  IF IsEmptyText(hint) THEN << >>
  ELSE IF hint.slashes /\ ~UrlparseRaises(hint) THEN LowerHost(Netloc(hint))
       ELSE LowerHost(WholeText(hint))

\* Whether "import tldextract" succeeded when the module was loaded: the
\* module global is the library, or None.
VARIABLE tldextract

\* The part of a label before a ":", on the labels the inputs use.
NoPort(l) ==
  CASE l = "mn:8080" -> "mn"
    [] l = "com:8080" -> "com"
    [] l = "net:8080" -> "net"
    [] l = "uk:8080" -> "uk"
    [] OTHER -> l

\* The public suffixes of the hosts the inputs use, as the suffix list that
\* tldextract carries has them.
PublicSuffixes ==
  { << "com" >>, << "net" >>, << "mn" >>, << "uk" >>, << "co", "uk" >> }

\* The labels of a host up to its port: the host cut at the first ":".
HostLabels(host) ==
  LET ported == {i \in 1..Len(host) : NoPort(host[i]) # host[i]}
  IN IF ported = {} THEN host
     ELSE [i \in 1..(CHOOSE i \in ported : \A j \in ported : i <= j) |->
             NoPort(host[i])]

\* The number of labels in the longest public suffix of the labels, 0 for
\* none.
SuffixLen(labels) ==
  LET lens == {k \in 1..Len(labels) :
                 SubSeq(labels, Len(labels) - k + 1, Len(labels)) \in PublicSuffixes}
  IN IF lens = {} THEN 0 ELSE CHOOSE x \in lens : \A y \in lens : y <= x

\* The suffix of k labels and the label before it, "" for a part that is
\* not there.
ExtractResult(labels, k) ==
  [domain |-> IF Len(labels) > k THEN << labels[Len(labels) - k] >> ELSE << >>,
   suffix |-> SubSeq(labels, Len(labels) - k + 1, Len(labels))]

\* tldextract.extract(host): the host is cut at the first ":" (a port), its
\* longest public suffix is found, and the label before the suffix is the
\* domain (the last label, when no suffix is found).
tldextract_extract(host) == ExtractResult(HostLabels(host), SuffixLen(HostLabels(host)))

\* ".".join(parts[-2:]) if len(parts) >= 2 else host
LastTwoLabels(host) ==
  IF Len(host) >= 2 THEN SubSeq(host, Len(host) - 1, Len(host)) ELSE host

\* The domain and suffix of ext when both are found, else the last two
\* labels of the host as it is.
DomainSuffix(ext, host) ==
  IF ext.domain # << >> /\ ext.suffix # << >> THEN ext.domain \o ext.suffix
  ELSE LastTwoLabels(host)

\* With tldextract, what it extracts; without, the last two labels.
_etld1_from_host(host) ==
  IF host = << >> THEN << >>
  ELSE IF tldextract THEN DomainSuffix(tldextract_extract(host), host)
       ELSE LastTwoLabels(host)

AD_HOST_SKIP ==
  { << "boost", "mn" >>, << "edge", "boost", "mn" >>, << "exchange", "boost", "mn" >>,
    << "doubleclick", "net" >>, << "googlesyndication", "com" >>,
    << "adservice", "google", "com" >> }

\* A changed _add_unique: the column is left as it is.
AddNever(cur, value) == cur

\* A changed _add_unique: the value is appended whether or not it is there.
AddAlways(cur, value) ==
  IF value = << >> THEN cur
  ELSE Append(SelectSeq(cur, LAMBDA q : q # << >>), value)

\* A ";"-joined column is the sequence of its parts.
_add_unique(cur, value) ==
  IF value = << >> THEN cur
  ELSE LET parts == SelectSeq(cur, LAMBDA q : q # << >>)
       IN IF \E i \in 1..Len(parts) : parts[i] = value THEN parts
          ELSE Append(parts, value)

\* The PUBLIC_BASE_URL of the environment, stripped.
PUBLIC_BASE_URL == "https://cdn.example/banners"

\* A relative path is its separator and its segments, "" no segments; the
\* public URL is the base ("" when there is none) and the segments, joined
\* by "/".
NoRel == [sep |-> "/", segs |-> << >>]

NoPublicUrl == [base |-> "", segs |-> << >>]

_public_url_from_rel(example_rel) ==
  IF PUBLIC_BASE_URL = "" \/ example_rel.segs = << >> THEN NoPublicUrl
  ELSE [base |-> PUBLIC_BASE_URL \o "/", segs |-> example_rel.segs]

\* A changed order of candidates: the click URL is tried before the hint.
ChooseClickFirst(advertiser_hint, click_url, page_url) ==
  LET page_dom == IF ~IsEmptyText(page_url)
                  THEN _etld1_from_host(_host_from_url(page_url)) ELSE << >>
      Accepted(etld1) ==
        etld1 # << >> /\ etld1 \notin AD_HOST_SKIP /\ etld1 # page_dom
      hint_host == _host_from_hint(advertiser_hint)
      host == _host_from_url(click_url)
  IN IF host # << >> /\ Accepted(_etld1_from_host(host))
     THEN [host |-> host, domain |-> _etld1_from_host(host)]
     ELSE IF hint_host # << >> /\ Accepted(_etld1_from_host(hint_host))
          THEN [host |-> hint_host, domain |-> _etld1_from_host(hint_host)]
          ELSE [host |-> << >>, domain |-> << >>]

\* (host, domain) of the hint, else of the click URL, else ("", "").
_choose_advertiser(advertiser_hint, click_url, page_url) ==
  LET page_dom == IF ~IsEmptyText(page_url)
                  THEN _etld1_from_host(_host_from_url(page_url)) ELSE << >>
      Accepted(etld1) ==
        etld1 # << >> /\ etld1 \notin AD_HOST_SKIP /\ etld1 # page_dom
      hint_host == _host_from_hint(advertiser_hint)
      host == _host_from_url(click_url)
  IN IF hint_host # << >> /\ Accepted(_etld1_from_host(hint_host))
     THEN [host |-> hint_host, domain |-> _etld1_from_host(hint_host)]
     ELSE IF host # << >> /\ Accepted(_etld1_from_host(host))
          THEN [host |-> host, domain |-> _etld1_from_host(host)]
          ELSE [host |-> << >>, domain |-> << >>]

\* The keyword arguments of observe_image other than seen_date.
Context(example_path, example_rel, click, asset, page, iframe, hint) ==
  [example_path |-> example_path, example_rel |-> example_rel,
   click_url |-> click, asset_url |-> asset, page_url |-> page,
   iframe_src |-> iframe, advertiser_hint |-> hint]

\* -------------------------------------------------------- observe_image
\* The record seeded for an unmatched observation.
NewRow(bid, site, seen_date, ctx, md5s, ph, mtype) ==
  [banner_id |-> bid, site |-> site,
   first_seen_date |-> seen_date, last_seen_date |-> seen_date,
   days_seen |-> "1", seen_dates |-> << seen_date >>,
   example_path |-> ctx.example_path, example_rel |-> ctx.example_rel,
   example_url |-> NoPublicUrl,
   md5 |-> md5s, phash |-> ph, matches |-> mtype,
   advertiser_host |-> << >>, advertiser_domain |-> << >>,
   source_host |-> << >>, iframe_host |-> << >>, page_domain |-> << >>,
   advertiser_hosts_all |-> << >>, advertiser_domains_all |-> << >>,
   nones |-> {}]

\* A changed decision: the similarity hash is consulted before the digest.
SelectRecordNearFirst(rs, bymd5, byph, md5s, ph) ==
  LET near_id == _find_by_phash_near(rs, byph, ph)
  IN IF near_id # ""
     THEN [bid |-> near_id, mtype |-> "near"]
     ELSE IF md5s \in DOMAIN bymd5
          THEN [bid |-> bymd5[md5s], mtype |-> "exact"]
          ELSE [bid |-> _alloc_banner_id(md5s), mtype |-> "new"]

\* The exact / near / new decision: the selected banner_id and match type.
SelectRecord(rs, bymd5, byph, md5s, ph) ==
  IF md5s \in DOMAIN bymd5
  THEN [bid |-> bymd5[md5s], mtype |-> "exact"]
  ELSE LET near_id == _find_by_phash_near(rs, byph, ph)
       IN IF near_id # ""
          THEN [bid |-> near_id, mtype |-> "near"]
          ELSE [bid |-> _alloc_banner_id(md5s), mtype |-> "new"]

\* A changed first_seen_date: kept once set, whatever the new date.
FirstSeenKept(row, seen_date) == OrDate(row.first_seen_date, seen_date)

\* min(row.get("first_seen_date", "") or seen_date, seen_date)
FirstSeen(row, seen_date) ==
  MinOf(OrDate(row.first_seen_date, seen_date), seen_date)

\* max(row.get("last_seen_date", "") or seen_date, seen_date)
LastSeen(row, seen_date) ==
  MaxOf(OrDate(row.last_seen_date, seen_date), seen_date)

\* prev = set(...); prev.add(seen_date)
SeenSet(row, seen_date) == SplitDates(row.seen_dates) \cup {seen_date}

\* A changed days_seen: the dates are counted before the new one is added.
DaysSeenBeforeAdd(row, seen_date) ==
  ToString(Cardinality(SplitDates(row.seen_dates)))

\* str(len(prev))
DaysSeen(row, seen_date) == ToString(Cardinality(SeenSet(row, seen_date)))

\* A changed attribution: the first resolved value is kept for good.
OverwriteWhenUnset(cur, value) == IF cur = << >> THEN value ELSE cur

\* if adv_host: row["advertiser_host"] = adv_host
Overwrite(cur, value) == IF value # << >> THEN value ELSE cur

\* A changed contextual host: the latest non-empty value replaces the first.
LatestHost(cur, value) == IF value # << >> THEN value ELSE cur

\* if value and not row.get(key): row[key] = value
FirstHost(cur, value) == IF value # << >> /\ cur = << >> THEN value ELSE cur

\* A changed refresh: the matches column keeps what it held.
RefreshRowKeepsMatches(row, md5s, ph, mtype) ==
  [row EXCEPT !.md5 = md5s, !.phash = ph]

\* row["md5"] = md5s; row["phash"] = ph; row["matches"] = mtype
RefreshRow(row, md5s, ph, mtype) ==
  [row EXCEPT !.md5 = md5s, !.phash = ph, !.matches = mtype]

\* The merge of one observation into the selected record.
\* The columns observe_image assigns on a record whose columns are None or
\* empty: all but banner_id, and those of the context only when the context
\* has a value for them.
Assigned(ctx, adv, src_host, ifh, pg_dom) ==
  {"site", "first_seen_date", "last_seen_date", "seen_dates", "days_seen",
   "example_path", "md5", "phash", "matches"}
    \cup (IF ctx.example_rel.segs # << >> THEN {"example_rel", "example_url"} ELSE {})
    \cup (IF adv.host # << >> THEN {"advertiser_host", "advertiser_hosts_all"} ELSE {})
    \cup (IF adv.domain # << >>
          THEN {"advertiser_domain", "advertiser_domains_all"} ELSE {})
    \cup (IF src_host # << >> THEN {"source_host"} ELSE {})
    \cup (IF ~IsEmptyText(ctx.iframe_src) /\ ifh # << >> THEN {"iframe_host"} ELSE {})
    \cup (IF pg_dom # << >> THEN {"page_domain"} ELSE {})

\* The merge of one observation into its record.  A column that is None
\* reads as empty everywhere (row.get(k) or ...), and stops being None when
\* it is assigned.
MergeRow(row, site, seen_date, ctx, md5s, ph, mtype) ==
  LET prev == SeenSet(row, seen_date)
      adv == _choose_advertiser(ctx.advertiser_hint, ctx.click_url, ctx.page_url)
      src_host == _host_from_url(ctx.asset_url)
      ifh == _host_from_url(ctx.iframe_src)
      pg_host == _host_from_url(ctx.page_url)
      pg_dom == IF pg_host # << >> THEN _etld1_from_host(pg_host) ELSE << >>
      has_rel == ctx.example_rel.segs # << >>
  IN RefreshRow(
     [row EXCEPT
        !.nones = @ \ Assigned(ctx, adv, src_host, ifh, pg_dom),
        !.site = IF row.site = "" THEN site ELSE row.site,
        !.first_seen_date = FirstSeen(row, seen_date),
        !.last_seen_date = LastSeen(row, seen_date),
        !.seen_dates = JoinSorted(prev),
        !.days_seen = DaysSeen(row, seen_date),
        !.example_path = IF row.example_path = "" THEN ctx.example_path
                         ELSE row.example_path,
        !.example_rel = IF has_rel THEN ctx.example_rel ELSE row.example_rel,
        !.example_url = IF has_rel THEN _public_url_from_rel(ctx.example_rel)
                        ELSE row.example_url,
        !.advertiser_host = Overwrite(row.advertiser_host, adv.host),
        !.advertiser_domain = Overwrite(row.advertiser_domain, adv.domain),
        !.advertiser_hosts_all = _add_unique(row.advertiser_hosts_all, adv.host),
        !.advertiser_domains_all = _add_unique(row.advertiser_domains_all, adv.domain),
        !.source_host = FirstHost(row.source_host, src_host),
        !.iframe_host = FirstHost(row.iframe_host,
                                  IF IsEmptyText(ctx.iframe_src) THEN << >> ELSE ifh),
        !.page_domain = FirstHost(row.page_domain, pg_dom)],
     md5s, ph, mtype)

\* A changed refresh: the digests the record held before are dropped from
\* the index when it takes a new one.
RefreshMd5Pruned(bymd5, md5s, bid) ==
  [k \in {x \in DOMAIN bymd5 : bymd5[x] # bid} \cup {md5s} |->
     IF k = md5s THEN bid ELSE bymd5[k]]

\* self._by_md5[md5s] = bid; self._by_phash[ph] = bid
RefreshMd5(bymd5, md5s, bid) == SetKey(bymd5, md5s, bid)

\* A changed refresh: the similarity-hash index is left as it was.
RefreshPhashForgotten(byph, ph, bid) == byph

RefreshPhash(byph, ph, bid) == SetKey(byph, ph, bid)

\* The outcome of a call that raised: nothing returned, the instance as given.
Raised(rs, bymd5, byph) ==
  [raised |-> TRUE, rows |-> rs, by_md5 |-> bymd5, by_phash |-> byph,
   bid |-> "", mtype |-> ""]

\* A changed decode failure: the record was seeded from the digest before
\* the image was decoded.
SeededBeforeDecode(rs, bymd5, byph, b, site, seen_date, ctx) ==
  LET md5s == _md5_short(b)
      bid == _alloc_banner_id(md5s)
  IN Raised(SetRow(rs, bid, NewRow(bid, site, seen_date, ctx, md5s, NoHash, "new")),
            RefreshMd5(bymd5, md5s, bid), byph)

\* What observe_image leaves when _phash_hex raises: seen_date and md5s are
\* locals, nothing of the instance has been written.
OnDecodeError(rs, bymd5, byph, b, site, seen_date, ctx) == Raised(rs, bymd5, byph)

\* _find_by_phash_near raises: the hash is no key of _by_phash, and the scan
\* comes to a record whose phash is a cut hex string, which hex_to_hash
\* turns into a hash of another shape; the subtraction in _phash_dist raises
\* TypeError.
FindNearRaises(rs, byph, phash_hex) ==
  /\ phash_hex \notin DOMAIN byph
  /\ \E i \in 1..Len(rs) : rs[i].phash = CutHash

\* observe_image on the instance (rs, bymd5, byph): the instance after the
\* call and what the call returned, or that it raised.  The digest and the
\* perceptual hash are computed first, then the record is selected; PIL or
\* the scan raising leaves before any write.
observe_image(rs, bymd5, byph, b, site, seen_date, ctx) ==
  LET md5s == _md5_short(b)
  IN IF ~Decodable(b)
     THEN OnDecodeError(rs, bymd5, byph, b, site, seen_date, ctx)
     ELSE IF md5s \notin DOMAIN bymd5 /\ FindNearRaises(rs, byph, _phash_hex(b))
     THEN Raised(rs, bymd5, byph)
     ELSE LET ph == _phash_hex(b)
              sel == SelectRecord(rs, bymd5, byph, md5s, ph)
              rs1 == IF sel.mtype = "new"
                     THEN SetRow(rs, sel.bid,
                                 NewRow(sel.bid, site, seen_date, ctx, md5s, ph,
                                        sel.mtype))
                     ELSE rs
              row == MergeRow(RowOf(rs1, sel.bid), site, seen_date, ctx, md5s, ph,
                              sel.mtype)
          IN [raised |-> FALSE,
              rows |-> SetRow(rs1, sel.bid, row),
              by_md5 |-> RefreshMd5(bymd5, md5s, sel.bid),
              by_phash |-> RefreshPhash(byph, ph, sel.bid),
              bid |-> sel.bid, mtype |-> sel.mtype]

\* ------------------------------------------------------------ load, save
\* The columns of the store, in the order save() writes them.
LEDGER_FIELDS ==
  << "banner_id", "site", "first_seen_date", "last_seen_date",
     "days_seen", "seen_dates",
     "example_path", "example_rel", "example_url",
     "md5", "phash", "matches",
     "advertiser_host", "advertiser_domain", "source_host", "iframe_host",
     "page_domain", "advertiser_hosts_all", "advertiser_domains_all" >>

FieldSet == {LEDGER_FIELDS[i] : i \in 1..Len(LEDGER_FIELDS)}

\* The empty string, as the column k holds it.
EmptyOf(k) ==
  CASE k \in {"first_seen_date", "last_seen_date"} -> NoDate
    [] k = "phash" -> NoHash
    [] k = "example_rel" -> NoRel
    [] k = "example_url" -> NoPublicUrl
    [] k \in {"seen_dates", "advertiser_host", "advertiser_domain", "source_host",
              "iframe_host", "page_domain", "advertiser_hosts_all",
              "advertiser_domains_all"} -> << >>
    [] OTHER -> ""

\* A row (of rows, or as csv.DictReader yields it from a line of the file)
\* is keyed by column names; "nones" is the set of its columns whose value
\* is None, the value DictReader gives a column of the header that a short
\* line does not reach.  Such a column holds EmptyOf(k) in the row: every
\* read of the code takes None for the empty string.

\* The columns of a row.
Columns(row) == DOMAIN row \ {"nones"}

\* row.get(k): a column the row lacks reads as empty.
Get(row, k) == IF k \in DOMAIN row THEN row[k] ELSE EmptyOf(k)

\* for k in LEDGER_FIELDS: row.setdefault(k, "")
Backfill(row) ==
  [k \in (DOMAIN row) \cup FieldSet |-> IF k \in DOMAIN row THEN row[k] ELSE EmptyOf(k)]

\* A file at csv_path is the lines a csv.DictReader yields from it, each a
\* row keyed by the columns of the file's header, or bytes that do not
\* decode as UTF-8 text.
NoFile == [exists |-> FALSE, decodes |-> TRUE, lines |-> << >>]

\* save(): every row is completed to all of LEDGER_FIELDS (setdefault leaves
\* a None where it is) and written, in rows order.
Normalized(rs) == [i \in 1..Len(rs) |-> Backfill(rs[i])]

\* csv.DictWriter(f, fieldnames=LEDGER_FIELDS) takes no row with a key
\* outside fieldnames (extrasaction="raise"): writerow raises ValueError on
\* the first such row, after the header and the rows before it were written.
ExtraKeys(row) == Columns(row) \ FieldSet

\* The rows save() writes before writerow raises: all of them when no row
\* has a key outside LEDGER_FIELDS.
Writable(rs) ==
  LET bad == {i \in 1..Len(rs) : ExtraKeys(rs[i]) # {}}
  IN IF bad = {} THEN rs
     ELSE SubSeq(rs, 1, (CHOOSE i \in bad : \A j \in bad : i <= j) - 1)

\* save() raises ValueError.
SaveRejects(rs) == \E i \in 1..Len(rs) : ExtraKeys(rs[i]) # {}

\* The lines csv.DictWriter writes for the rows, as far as it takes them: a
\* None is written as the empty string.
WrittenLine(row) == [Backfill(row) EXCEPT !.nones = {}]

Written(rs) == [i \in 1..Len(Writable(rs)) |-> WrittenLine(rs[i])]

\* A changed save(): records last matched by their digest are taken as
\* unchanged and left out.
SaveFileChangedOnly(rs) ==
  [exists |-> TRUE, decodes |-> TRUE,
   lines |-> SelectSeq(Written(rs), LAMBDA r : r.matches # "exact")]

SaveFile(rs) == [exists |-> TRUE, decodes |-> TRUE, lines |-> Written(rs)]

\* The position of a column in a line.
ColIndex(k) == CHOOSE i \in 1..Len(LEDGER_FIELDS) : LEDGER_FIELDS[i] = k

\* A proper, non-empty prefix of a string, for the strings the records hold.
Prefix(v) ==
  CASE v \in {"s1", "s2"} -> "s"
    [] v = "out/a.png" -> "out/"
    [] v \in {"new", "near"} -> "n"
    [] v = "exact" -> "e"
    [] v = "a000000001" -> "a0"
    [] v = "b000000002" -> "b0"
    [] v = "c000000003" -> "c0"
    [] v = "d000000004" -> "d0"
    [] v = "e000000005" -> "e0"
    [] v = "f000000006" -> "f0"
    [] v = "g000000007" -> "g0"
    [] v = "h000000008" -> "h0"
    [] OTHER -> v

\* The text v of column k, cut inside: a proper non-empty prefix of it.  A
\* text of at most one character (an empty column, a days_seen count) has
\* none and stays whole, as do the URL and host columns.  seen_dates is cut
\* inside its last date: the records of the runs whose save() fails hold
\* one date.
CutText(k, v) ==
  CASE k = "banner_id" -> IF v = "" THEN v ELSE "bn_"
    [] k \in {"first_seen_date", "last_seen_date"} ->
         IF v = NoDate THEN v ELSE CutDate
    [] k = "seen_dates" ->
         IF v = << >> THEN v ELSE SubSeq(v, 1, Len(v) - 1) \o << CutDate >>
    [] k = "phash" -> IF v = NoHash THEN v ELSE CutHash
    [] k \in {"site", "example_path", "md5", "matches"} -> Prefix(v)
    [] OTHER -> v

\* Where the text of a line can end: in column c, before its first
\* character ("empty": the separator was written), inside it ("part"), or
\* after its last ("whole").  A line that ends before its first column is
\* no line.
CutStops ==
  ((1..Len(LEDGER_FIELDS)) \X {"empty", "part", "whole"}) \ {<< 1, "empty" >>}

\* The row csv.DictReader yields from a written line whose text ends at the
\* stop: the columns before it whole, the column of the stop as far as it
\* was written, the columns after it None.
CutLine(line, stop) ==
  [k \in DOMAIN line |->
     IF k = "nones" THEN {LEDGER_FIELDS[i] : i \in (stop[1] + 1)..Len(LEDGER_FIELDS)}
     ELSE IF ColIndex(k) < stop[1] THEN line[k]
     ELSE IF ColIndex(k) > stop[1] THEN EmptyOf(k)
     ELSE CASE stop[2] = "whole" -> line[k]
            [] stop[2] = "part" -> CutText(k, line[k])
            [] OTHER -> EmptyOf(k)]

\* The file when the write of save() stops in line n + 1 at the stop.
CutFile(rs, n, stop) ==
  [exists |-> TRUE, decodes |-> TRUE,
   lines |-> SubSeq(Written(rs), 1, n) \o << CutLine(Written(rs)[n + 1], stop) >>]

\* _load over the file's lines i.., into (rs, bymd5, byph).
RECURSIVE LoadFrom(_, _, _, _, _)
LoadFrom(lines, i, rs, bymd5, byph) ==
  IF i > Len(lines) THEN [rows |-> rs, by_md5 |-> bymd5, by_phash |-> byph]
  ELSE LET bid == Get(lines[i], "banner_id")
           row == Backfill(lines[i])
       IN IF bid = "" THEN LoadFrom(lines, i + 1, rs, bymd5, byph)
          ELSE LoadFrom(lines, i + 1, SetRow(rs, bid, row),
                        IF row.md5 # "" THEN SetKey(bymd5, row.md5, bid) ELSE bymd5,
                        IF row.phash # NoHash THEN SetKey(byph, row.phash, bid) ELSE byph)

\* A construction that raised: no instance comes to exist.
LoadRaised ==
  [raised |-> TRUE, rows |-> << >>, by_md5 |-> << >>, by_phash |-> << >>]

\* What _load does on a file whose bytes are not UTF-8 text: the read inside
\* the with block raises UnicodeDecodeError, which nothing catches.
OnUnreadable(file) == LoadRaised

\* BannerLedger(csv_path): empty, then _load when the file exists.
NewLedger(file) ==
  IF ~file.exists
  THEN [raised |-> FALSE, rows |-> << >>, by_md5 |-> << >>, by_phash |-> << >>]
  ELSE IF ~file.decodes THEN OnUnreadable(file)
       ELSE LET l == LoadFrom(file.lines, 1, << >>, << >>, << >>)
            IN [raised |-> FALSE, rows |-> l.rows, by_md5 |-> l.by_md5,
                by_phash |-> l.by_phash]

\* ------------------------------------------------------------ inputs
\* An observation with no click, asset, page or iframe URL and no hint.
PlainContexts ==
  { Context("out/a.png", NoRel, NoText, NoText, NoText, NoText, NoText) }

\* Observations with what the scrapers pass along: a click URL on an
\* advertiser's host, the page's own URL, the asset's and the iframe's URL,
\* a hint that is a bare host name or a URL, a relative path.
ClickShop == Url("https", << "Shop", "example", "com" >>, "/landing")
ClickSelf == Url("http", << "www", "news", "mn:8080" >>, "/x")
PageNews == Url("https", << "NEWS", "mn" >>, "/")
AssetBoost == Url("https", << "cdn", "boost", "mn" >>, "/a.png")
FrameEdge == Url("", << "edge", "boost", "mn" >>, "/f")
AssetGogo == Url("https", << "img", "gogo", "mn" >>, "/c.gif")
PageGogo == Url("https", << "gogo", "mn" >>, "/news")
FrameGogo == Url("https", << "ads", "gogo", "mn" >>, "/f")
HintAdservice == Bare(<< "adservice", "google", "com" >>)
HintBrand == Url("https", << "brand", "mn" >>, "")

CtxPlain == Context("out/a.png", NoRel, NoText, NoText, NoText, NoText, NoText)
CtxShop ==
  Context("out/b.png", [sep |-> "\\", segs |-> << "2024", "b.png" >>],
          ClickShop, AssetBoost, PageNews, FrameEdge, NoText)
CtxAdservice ==
  Context("out/c.png", NoRel, ClickSelf, NoText, PageNews, NoText, HintAdservice)
CtxBrand == Context("", NoRel, ClickShop, AssetGogo, PageGogo, FrameGogo, HintBrand)

RichContexts == {CtxPlain, CtxShop, CtxAdservice, CtxBrand}

CtxImgs == {1, 2}
CtxSites == {"s1", "s2"}

\* The calls of two scrapers: each passes its own site name and the context
\* it collects.
CtxCalls ==
  { [site |-> "s1", ctx |-> CtxPlain], [site |-> "s1", ctx |-> CtxShop],
    [site |-> "s2", ctx |-> CtxAdservice], [site |-> "s2", ctx |-> CtxBrand] }

\* Files a run can find at csv_path.  One written before example_rel,
\* example_url and the attribution columns existed, holding a record of
\* image 1:
OldSchemaFile ==
  [exists |-> TRUE, decodes |-> TRUE,
   lines |-> << [banner_id |-> "bn_a000000001", site |-> "s1",
                 first_seen_date |-> 1, last_seen_date |-> 1,
                 days_seen |-> "1", seen_dates |-> << 1 >>,
                 example_path |-> "out/a.png",
                 md5 |-> "a000000001", phash |-> 0, matches |-> "new",
                 nones |-> {}] >>]

\* one whose first line has an empty banner_id and whose second holds a
\* record of image 3, under a short header:
BlankIdFile ==
  [exists |-> TRUE, decodes |-> TRUE,
   lines |-> << [banner_id |-> "", site |-> "s1", md5 |-> "b000000002", phash |-> 63,
                 nones |-> {}],
                [banner_id |-> "bn_c000000003", site |-> "", md5 |-> "c000000003",
                 phash |-> 127, nones |-> {}] >>]

\* text that is no ledger (no banner_id column):
ForeignFile ==
  [exists |-> TRUE, decodes |-> TRUE,
   lines |-> << [name |-> "x", nones |-> {}], [name |-> "y", nones |-> {}] >>]

\* one with a column that is not in LEDGER_FIELDS, holding a record of
\* image 1:
ExtraColumnFile ==
  [exists |-> TRUE, decodes |-> TRUE,
   lines |-> << [banner_id |-> "bn_a000000001", site |-> "s1", md5 |-> "a000000001",
                 phash |-> 0, note |-> "x", nones |-> {}] >>]

\* one whose second line is longer than its header: csv.DictReader puts the
\* surplus values, as a list, under the key None (restkey):
LongLineFile ==
  [exists |-> TRUE, decodes |-> TRUE,
   lines |-> << [banner_id |-> "bn_a000000001", site |-> "s1", md5 |-> "a000000001",
                 phash |-> 0, nones |-> {}],
                [banner_id |-> "bn_c000000003", site |-> "s2", md5 |-> "c000000003",
                 phash |-> 127, restkey |-> << "x" >>, nones |-> {}] >>]

\* bytes that are not UTF-8 text (a damaged or foreign binary file):
BinaryFile == [exists |-> TRUE, decodes |-> FALSE, lines |-> << >>]

\* and files an earlier run's failed save() left, of a ledger holding the
\* record of image 1: one ending after the site column, one inside phash.
CutSiteFile == CutFile(OldSchemaFile.lines, 0, << ColIndex("site"), "whole" >>)

CutHashFile == CutFile(OldSchemaFile.lines, 0, << ColIndex("phash"), "part" >>)

StoreFiles ==
  {NoFile, OldSchemaFile, BlankIdFile, ForeignFile, ExtraColumnFile, LongLineFile,
   BinaryFile, CutSiteFile, CutHashFile}

StoreImgs == {1, 3}

\* URLs by their parts: scheme, host labels, port ("" for none) and path.
\* In the string the port follows the last label, after a colon.
WithPort(labels, port) ==
  IF port = "" \/ labels = << >> THEN labels
  ELSE [labels EXCEPT ![Len(labels)] = @ \o ":" \o port]

UrlOf(parts) ==
  IF parts.scheme = "" /\ parts.labels = << >> THEN NoText
  ELSE Url(parts.scheme, WithPort(parts.labels, parts.port), parts.path)

Parts(scheme, labels, port, path) ==
  [scheme |-> scheme, labels |-> labels, port |-> port, path |-> path]

NoParts == Parts("", << >>, "", "")

Ports == {"", "8080"}

\* Hosts a click URL leads to: advertisers, the page's own site, ad servers.
ClickHosts ==
  { << "Shop", "example", "com" >>, << "brand", "mn" >>, << "www", "news", "mn" >>,
    << "doubleclick", "net" >>, << "ad", "doubleclick", "net" >>,
    << "a", "b", "co", "uk" >> }

ClickParts ==
  {NoParts} \cup {Parts("https", h, p, "/x") : h \in ClickHosts, p \in Ports}

PageParts == {NoParts} \cup {Parts("https", << "NEWS", "mn" >>, p, "/") : p \in Ports}

\* Hints: none, bare host names, a URL.
Hints ==
  { NoText, HintAdservice, HintBrand, Bare(<< "edge", "boost", "mn" >>),
    Bare(<< "news", "mn" >>), Bare(<< "Shop", "example", "com" >>) }

\* URLs given to _host_from_url: the above, and one urlparse refuses.
HostParts ==
  ClickParts \cup PageParts \cup {Parts("http", << "[::1" >>, "", "/")}

\* The scrapers that construct a ledger, observe and save.
Scrapers == {"gogo", "ikon", "news"}

\* ------------------------------------------------------------- state
VARIABLES
  rows,      \* self.rows of the live instance
  by_md5,    \* self._by_md5
  by_phash,  \* self._by_phash
  store,     \* the CSV file at csv_path
  last,      \* the last call made, what it returned, and the call before it
  attr,      \* per image bytes, the banner_id its first observation returned,
             \* over the runs whose merges were saved and the live one
  attrSaved, \* attr as of the last save()
  nobs,      \* observe_image calls made so far
  nfail      \* save() calls that failed so far

vars == << tldextract, rows, by_md5, by_phash, store, last, attr, attrSaved, nobs,
          nfail >>

\* A call in short: what was called with what, and what it returned.
Call(op, b, seen_date, bid, mtype) ==
  [op |-> op, img |-> b, date |-> seen_date, bid |-> bid, mtype |-> mtype]

NoCall ==
  [op |-> "none", img |-> 0, date |-> NoDate, bid |-> "", mtype |-> "",
   replaced |-> FALSE, prevDates |-> << >>, prevPhash |-> NoHash,
   prev |-> Call("none", 0, NoDate, "", "")]

\* A BannerLedger instance is in use: the last construction did not raise,
\* and no exception has since left the scraper function that holds it.
Live == last.op \notin {"loadraise", "abort"}

\* A changed observe_image: every call rewrites the file at csv_path.
ObserveStoreWritten(file, rs) == SaveFile(rs)

\* What observe_image does to the file at csv_path: nothing, it never opens it.
ObserveStore(file, rs) == file

Init ==
  /\ tldextract \in BOOLEAN
  /\ rows = << >>
  /\ by_md5 = << >>
  /\ by_phash = << >>
  /\ store = NoFile
  /\ last = NoCall
  /\ attr = [b \in AllImages |-> ""]
  /\ attrSaved = [b \in AllImages |-> ""]
  /\ nobs = 0
  /\ nfail = 0

\* One call of observe_image(img_bytes, site, seen_date=..., ...).
Observe(b, site, seen_date, ctx) ==
  /\ Live
  /\ LET r == observe_image(rows, by_md5, by_phash, b, site, seen_date, ctx)
     IN /\ rows' = r.rows
        /\ by_md5' = r.by_md5
        /\ by_phash' = r.by_phash
        /\ last' = [op |-> IF r.raised THEN "raise" ELSE "observe",
                    img |-> b, date |-> seen_date, bid |-> r.bid, mtype |-> r.mtype,
                    replaced |-> r.mtype = "new" /\ r.bid \in Keys(rows),
                    prevDates |-> IF r.bid \in Keys(rows)
                                  THEN RowOf(rows, r.bid).seen_dates ELSE << >>,
                    prevPhash |-> IF r.bid \in Keys(rows)
                                  THEN RowOf(rows, r.bid).phash ELSE NoHash,
                    prev |-> Call(last.op, last.img, last.date, last.bid, last.mtype),
                    site |-> site, ctx |-> ctx]
        /\ attr' = IF ~r.raised /\ attr[b] = "" THEN [attr EXCEPT ![b] = r.bid]
                   ELSE attr
        /\ store' = ObserveStore(store, r.rows)
  /\ nobs' = nobs + 1
  /\ UNCHANGED << tldextract, attrSaved, nfail >>

\* ledger.save(): the file is opened for writing, the header and the rows
\* are written; a row that DictWriter does not take ends the write with
\* ValueError (op "saveinvalid"), the rows before it written.
Save ==
  /\ Live
  /\ store' = SaveFile(rows)
  /\ rows' = Normalized(rows)
  /\ last' = [NoCall EXCEPT !.op = IF SaveRejects(rows) THEN "saveinvalid" ELSE "save"]
  /\ attrSaved' = IF SaveRejects(rows) THEN attrSaved ELSE attr
  /\ UNCHANGED << tldextract, by_md5, by_phash, attr, nobs, nfail >>

\* The process ends and a later run constructs BannerLedger on the same path;
\* what the ended run merged after its last save() is lost.
Reload ==
  /\ LET l == NewLedger(store)
     IN /\ rows' = l.rows
        /\ by_md5' = l.by_md5
        /\ by_phash' = l.by_phash
        /\ last' = [NoCall EXCEPT !.op = IF l.raised THEN "loadraise" ELSE "load"]
  /\ attr' = attrSaved
  /\ UNCHANGED << tldextract, store, attrSaved, nobs, nfail >>

\* The persistence step of a scraper, given whether ledger.save() raised:
\* gogo_mn catches the exception and prints a warning, ikon_mn and news_mn
\* let it leave the scraper function.
scrape_save_step(scraper, save_raised) ==
  IF scraper = "gogo" THEN [raised |-> FALSE, warned |-> save_raised]
  ELSE [raised |-> save_raised, warned |-> FALSE]

\* What a scraper does with an observe_image call, given whether it raised:
\* gogo_mn catches the exception and prints a warning, ikon_mn catches it
\* with the other errors of that image and records an error row, and both go
\* on to the next image; news_mn has no handler, so the exception leaves
\* scrape_news_banners before the remaining images and before ledger.save().
scrape_observe_step(scraper, observe_raised) ==
  IF scraper = "news" THEN [raised |-> observe_raised, skipped |-> FALSE]
  ELSE [raised |-> FALSE, skipped |-> observe_raised]

\* run.py, run_ikon / run_gogo / run_news: an exception leaving the scraper
\* is printed as "[ERROR] ... scraping failed"; a scraper that returns is
\* followed by nothing.
run_site(scrape_raised) == [error_printed |-> scrape_raised]

\* ledger.save() of the given scraper fails with an I/O error: makedirs or
\* open raised and the file is as it was, or open truncated the file and the
\* write stopped: after n whole lines (or inside the header, when n = 0), or
\* inside line n + 1, at any stop, of the lines save() comes to write.
SaveFail(scraper) ==
  /\ Live
  /\ \/ store' = store
     \/ \E n \in 0..Len(Written(rows)) :
          store' = [exists |-> TRUE, decodes |-> TRUE,
                    lines |-> SubSeq(Written(rows), 1, n)]
     \/ \E n \in 0..(Len(Written(rows)) - 1), stop \in CutStops :
          store' = CutFile(rows, n, stop)
  /\ rows' = Normalized(rows)
  /\ LET step == scrape_save_step(scraper, TRUE)
     IN last' = [op |-> "saveraise", img |-> 0, date |-> NoDate, bid |-> "",
                 mtype |-> "", replaced |-> FALSE, prevDates |-> << >>,
                 prevPhash |-> NoHash, prev |-> Call("none", 0, NoDate, "", ""),
                 scraper |-> scraper, warned |-> step.warned,
                 reported |-> run_site(step.raised).error_printed]
  /\ nfail' = nfail + 1
  /\ UNCHANGED << tldextract, by_md5, by_phash, attr, attrSaved, nobs >>

\* The given scraper calls observe_image on bytes PIL cannot decode.  The
\* ledger is left as it was; the scraper skips the image, or the exception
\* ends its run and run.py reports it.
ObserveFail(scraper, b, site, seen_date, ctx) ==
  /\ Live
  /\ ~Decodable(b)
  /\ LET r == observe_image(rows, by_md5, by_phash, b, site, seen_date, ctx)
         step == scrape_observe_step(scraper, r.raised)
     IN /\ rows' = r.rows
        /\ by_md5' = r.by_md5
        /\ by_phash' = r.by_phash
        /\ last' = [op |-> IF step.raised THEN "abort" ELSE "raise",
                    img |-> b, date |-> seen_date, bid |-> r.bid, mtype |-> r.mtype,
                    replaced |-> FALSE, prevDates |-> << >>, prevPhash |-> NoHash,
                    prev |-> Call(last.op, last.img, last.date, last.bid, last.mtype),
                    site |-> site, ctx |-> ctx,
                    scraper |-> scraper, skipped |-> step.skipped,
                    reported |-> run_site(step.raised).error_printed]
  /\ nobs' = nobs + 1
  /\ UNCHANGED << tldextract, store, attr, attrSaved, nfail >>

\* One call of _choose_advertiser(advertiser_hint, click_url, page_url), the
\* two URLs given by their parts.
Choose(hint, click, page) ==
  /\ LET r == _choose_advertiser(hint, UrlOf(click), UrlOf(page))
     IN last' = [op |-> "choose", hint |-> hint, click |-> click, page |-> page,
                 host |-> r.host, domain |-> r.domain]
  /\ UNCHANGED << tldextract, rows, by_md5, by_phash, store, attr, attrSaved, nobs,
                  nfail >>

\* One call of _host_from_url(url).
HostOf(parts) ==
  /\ last' = [op |-> "host_of", url |-> parts, host |-> _host_from_url(UrlOf(parts))]
  /\ UNCHANGED << tldextract, rows, by_md5, by_phash, store, attr, attrSaved, nobs,
                  nfail >>

\* Any images, all observed on one day.
Next ==
  \/ /\ nobs < MaxObs
     /\ \E b \in ImgBytes, site \in Sites, d \in OneDay, ctx \in PlainContexts :
          Observe(b, site, d, ctx)
  \/ Save
  \/ Reload

Spec == Init /\ [][Next]_vars

\* A few images, observed on any days in any order.
NextDates ==
  \/ /\ nobs < MaxDateObs
     /\ \E b \in DateImgs, site \in Sites, d \in Dates, ctx \in PlainContexts :
          Observe(b, site, d, ctx)
  \/ Save
  \/ Reload

SpecDates == Init /\ [][NextDates]_vars

\* Two banners, observed with and without attribution context.
NextCtx ==
  \/ /\ nobs < MaxCtxObs
     /\ \E b \in CtxImgs, d \in OneDay, c \in CtxCalls :
          Observe(b, c.site, d, c.ctx)
  \/ Save
  \/ Reload

SpecCtx == Init /\ [][NextCtx]_vars

\* Images near and far from each other, all observed on one day.
NextNear ==
  \/ /\ nobs < MaxNearObs
     /\ \E b \in NearImgs, site \in Sites, d \in OneDay, ctx \in PlainContexts :
          Observe(b, site, d, ctx)
  \/ Save
  \/ Reload

SpecNear == Init /\ [][NextNear]_vars

\* Scraper runs over images some of which cannot be decoded.
NextRun ==
  \/ /\ nobs < MaxRunObs
     /\ \E b \in RunImgs, site \in Sites, d \in OneDay, ctx \in PlainContexts :
          Decodable(b) /\ Observe(b, site, d, ctx)
  \/ /\ nobs < MaxRunObs
     /\ \E scraper \in Scrapers, b \in RunImgs :
          \E site \in Sites, d \in OneDay, ctx \in PlainContexts :
            ObserveFail(scraper, b, site, d, ctx)
  \/ Save
  \/ Reload

SpecRun == Init /\ [][NextRun]_vars

\* The pure functions under the ledger, applied to any of their inputs.
NextUrl ==
  \/ \E hint \in Hints, click \in ClickParts, page \in PageParts :
       Choose(hint, click, page)
  \/ \E parts \in HostParts : HostOf(parts)

SpecUrl == Init /\ [][NextUrl]_vars

\* A run starts on whatever file is at csv_path: the state after
\* BannerLedger(csv_path) returned or raised.
InitStore ==
  /\ tldextract \in BOOLEAN
  /\ store \in StoreFiles
  /\ LET l == NewLedger(store)
     IN /\ rows = l.rows
        /\ by_md5 = l.by_md5
        /\ by_phash = l.by_phash
        /\ last = [NoCall EXCEPT !.op = IF l.raised THEN "loadraise" ELSE "load"]
  /\ attr = [b \in AllImages |-> ""]
  /\ attrSaved = [b \in AllImages |-> ""]
  /\ nobs = 0
  /\ nfail = 0

\* Runs over stores of any kind.
NextStore ==
  \/ /\ nobs < MaxStoreObs
     /\ \E b \in StoreImgs, site \in Sites, d \in OneDay, ctx \in PlainContexts :
          Observe(b, site, d, ctx)
  \/ Save
  \/ Reload

SpecStore == InitStore /\ [][NextStore]_vars

\* The same runs when a save() can fail, at any point of the write.
NextFail ==
  \/ /\ nobs < MaxStoreObs
     /\ \E b \in StoreImgs, site \in Sites, d \in OneDay, ctx \in PlainContexts :
          Observe(b, site, d, ctx)
  \/ Save
  \/ /\ nfail < MaxSaveFails
     /\ \E scraper \in Scrapers : SaveFail(scraper)
  \/ Reload

SpecFail == InitStore /\ [][NextFail]_vars

\* ------------------------------------------------------------- claims
ObserveStep == nobs' = nobs + 1

\* Both images decode and differ in bytes.
TwoImages(b1, b2) == b1 # b2 /\ Decodable(b1) /\ Decodable(b2)

HashDist(b1, b2) == _phash_dist(_phash_hex(b1), _phash_hex(b2))

\* The last two calls were observe_image calls on the same instance, one
\* directly after the other, and both returned.
TwoInARow == last.op = "observe" /\ last.prev.op = "observe"

\* C1: no observe_image call seeds a new record under a banner_id that is
\* already a key of rows.
C1_NeverReplaced == last.op = "observe" => ~last.replaced

\* C2: every observe_image of an image returns the banner_id its first
\* observation returned, across save and reload.
C2_StableBannerId == last.op = "observe" => last.bid = attr[last.img]

\* C3: a ledger constructed right after save() has the rows and both indexes
\* of the instance that saved.
C3_RoundTrip ==
  [][(last.op = "save" /\ last'.op = "load")
       => (rows' = rows /\ by_md5' = by_md5 /\ by_phash' = by_phash)]_vars

\* C4: every record's current md5 and phash are index keys that map to the
\* record's own banner_id.
C4_IndexInvariant ==
  \A i \in 1..Len(rows) :
    /\ rows[i].md5 \in DOMAIN by_md5
    /\ by_md5[rows[i].md5] = rows[i].banner_id
    /\ rows[i].phash \in DOMAIN by_phash
    /\ by_phash[rows[i].phash] = rows[i].banner_id

\* Two records, and an index key that is no record's current digest: the
\* record it maps to has since taken another image's digest.
C4_Witness ==
  /\ last.op = "observe"
  /\ Len(rows) >= 2
  /\ \E k \in DOMAIN by_md5 : \A i \in 1..Len(rows) : rows[i].md5 # k

\* C5: the same bytes observed twice in a row: the second call returns the
\* first call's banner_id with match type "exact", and on another date the
\* record then holds both dates and counts them.
C5_Idempotent ==
  (TwoInARow /\ last.img = last.prev.img)
    => /\ last.bid = last.prev.bid
       /\ last.mtype = "exact"
       /\ last.date # last.prev.date
            => LET r == RowOf(rows, last.bid)
                   seen == SplitDates(last.prevDates) \cup {last.date}
               IN /\ {last.prev.date, last.date} \subseteq SplitDates(r.seen_dates)
                  /\ SplitDates(r.seen_dates) = seen
                  /\ r.days_seen = ToString(Cardinality(seen))

\* The first of the two calls merged into a record by similarity, the
\* second came on another day.
C5_Witness ==
  /\ TwoInARow
  /\ last.img = last.prev.img
  /\ last.prev.mtype = "near"
  /\ last.date # last.prev.date
  /\ RowOf(rows, last.bid).days_seen = "2"

\* C6: every record's days_seen is the number of entries of its seen_dates.
C6_DaysSeen ==
  \A i \in 1..Len(rows) : rows[i].days_seen = ToString(Len(rows[i].seen_dates))

\* A record seen on two days was observed again on one of them.
C6_Witness ==
  /\ last.op = "observe"
  /\ Len(last.prevDates) >= 2
  /\ last.date \in SplitDates(last.prevDates)

\* C7: every record's first_seen_date is the least and its last_seen_date
\* the greatest of its seen_dates.
C7_FirstLast ==
  \A i \in 1..Len(rows) :
    LET seen == SplitDates(rows[i].seen_dates)
    IN /\ rows[i].first_seen_date \in seen
       /\ rows[i].last_seen_date \in seen
       /\ \A d \in seen : rows[i].first_seen_date <= d /\ d <= rows[i].last_seen_date

\* A record was observed on a day before every day it had been seen on.
C7_Witness ==
  /\ last.op = "observe"
  /\ last.prevDates # << >>
  /\ \A d \in SplitDates(last.prevDates) : last.date < d

\* C8 as stated: the second of two near images, observed right after the
\* first, returns the first's banner_id with match type "near".
C8_AsStated ==
  (/\ TwoInARow
   /\ TwoImages(last.prev.img, last.img)
   /\ HashDist(last.prev.img, last.img) <= MAX_HASH_DISTANCE)
    => (last.bid = last.prev.bid /\ last.mtype = "near")

\* No other record competes with record bid for the hash ph: ph is not an
\* index key of another record, and without a key no other record is nearer
\* to ph, or as near and earlier in rows.
NoRival(rs, byph, bid, ph) ==
  IF ph \in DOMAIN byph THEN byph[ph] = bid
  ELSE \A i \in 1..Len(rs) :
         (rs[i].banner_id # bid /\ rs[i].phash # NoHash)
           => LET d == _phash_dist(ph, rs[i].phash)
                  d0 == _phash_dist(ph, RowOf(rs, bid).phash)
              IN d > d0 \/ (d = d0 /\ i > RowIndex(rs, bid))

\* C8, amended: the second of two near images, observed right after the
\* first, never seeds a record; its match type is "near" when its digest is
\* not yet a key of _by_md5, and it then returns the first's banner_id when
\* no other record competes for its hash.
C8_NearClustering ==
  [][(/\ ObserveStep
      /\ last.op = "observe"
      /\ last'.op = "observe"
      /\ TwoImages(last.img, last'.img)
      /\ HashDist(last.img, last'.img) <= MAX_HASH_DISTANCE)
       => /\ last'.mtype \in {"exact", "near"}
          /\ _md5_short(last'.img) \notin DOMAIN by_md5
               => /\ last'.mtype = "near"
                  /\ NoRival(rows, by_phash, last.bid, _phash_hex(last'.img))
                       => last'.bid = last.bid]_vars

\* The second image is exactly MAX_HASH_DISTANCE from the first, which had
\* seeded the record, and joined it.
C8_Witness ==
  /\ TwoInARow
  /\ TwoImages(last.prev.img, last.img)
  /\ HashDist(last.prev.img, last.img) = MAX_HASH_DISTANCE
  /\ last.prev.mtype = "new"
  /\ last.mtype = "near"
  /\ last.bid = last.prev.bid

\* C9 as stated: two images with different digests and hashes further apart
\* than MAX_HASH_DISTANCE are returned different banner_ids.
C9_AsStated ==
  (/\ TwoInARow
   /\ TwoImages(last.prev.img, last.img)
   /\ HashDist(last.prev.img, last.img) > MAX_HASH_DISTANCE)
    => last.bid # last.prev.bid

\* C9, amended: when the first of two far images seeded a record and the
\* second, observed right after it, matches nothing else in the ledger (its
\* digest and its hash are no index keys, no other record's hash is within
\* MAX_HASH_DISTANCE), the second seeds a record too, under another
\* banner_id.
C9_NonClustering ==
  [][(/\ ObserveStep
      /\ last.op = "observe"
      /\ last.mtype = "new"
      /\ last'.op = "observe"
      /\ TwoImages(last.img, last'.img)
      /\ HashDist(last.img, last'.img) > MAX_HASH_DISTANCE
      /\ _md5_short(last'.img) \notin DOMAIN by_md5
      /\ _phash_hex(last'.img) \notin DOMAIN by_phash
      /\ \A i \in 1..Len(rows) :
           (rows[i].banner_id # last.bid /\ rows[i].phash # NoHash)
             => _phash_dist(_phash_hex(last'.img), rows[i].phash) > MAX_HASH_DISTANCE)
       => /\ last'.mtype = "new"
          /\ last'.bid # last.bid
          /\ {last.bid, last'.bid} \subseteq Keys(rows')]_vars

\* Two far images were observed one after the other and each seeded a record.
C9_Witness ==
  /\ TwoInARow
  /\ TwoImages(last.prev.img, last.img)
  /\ HashDist(last.prev.img, last.img) > MAX_HASH_DISTANCE
  /\ last.prev.mtype = "new"
  /\ last.mtype = "new"
  /\ last.bid # last.prev.bid

\* C10: observe_image on bytes that do not decode raises and leaves rows,
\* _by_md5 and _by_phash as they were.
C10_DecodeFailure ==
  [][(ObserveStep /\ ~Decodable(last'.img))
       => /\ last'.op = "raise"
          /\ rows' = rows
          /\ by_md5' = by_md5
          /\ by_phash' = by_phash]_vars

\* A call raised on a ledger that holds records.
C10_Witness == last.op = "raise" /\ Len(rows) >= 1

\* C11: constructing BannerLedger does not raise, and on a file that is
\* missing or cannot be read as text it yields an empty ledger: no rows and
\* two empty indexes.
C11_LoadNonFatal ==
  last.op \in {"load", "loadraise"}
    => /\ last.op = "load"
       /\ (~store.exists \/ ~store.decodes)
            => (rows = << >> /\ by_md5 = << >> /\ by_phash = << >>)

\* C12: when save() fails with an I/O error, the exception leaves save(),
\* and the run of the scraper that called it is reported as failed.
C12_SaveFailureSurfaced == last.op = "saveraise" => last.reported

\* C13: only save() changes the file at csv_path: every observe_image call,
\* returning or raising, leaves it as it was, and so does construction.
C13_StoreOnlyBySave ==
  [][/\ ObserveStep => store' = store
     /\ store' # store => last'.op = "save"]_vars

\* A record was seeded after the last save(): the ledger holds it, the file
\* does not.
C13_Witness ==
  /\ last.op = "observe"
  /\ last.mtype = "new"
  /\ store.exists
  /\ store.lines # << >>
  /\ last.bid \notin Keys(store.lines)

\* The host the URL of the given parts names: its labels, lower-cased,
\* without the port; and the registrable domain of that host.
HostNamed(parts) == LowerHost(parts.labels)

DomainNamed(parts) == _etld1_from_host(HostNamed(parts))

\* C14: the (host, domain) _choose_advertiser returns, when not empty, has a
\* host outside AD_HOST_SKIP, a domain outside AD_HOST_SKIP, and a domain
\* other than the page's registrable domain.
C14_AttributionClean ==
  (last.op = "choose" /\ last.host # << >>)
    => /\ last.host \notin AD_HOST_SKIP
       /\ last.domain \notin AD_HOST_SKIP
       /\ last.domain # DomainNamed(last.page)

\* C15: a candidate whose registrable domain is in AD_HOST_SKIP or is the
\* page's contributes nothing: with both candidates rejected or absent the
\* result is ("", ""), and with only the hint rejected it is the click
\* URL's resolution.
C15_DenylistFallThrough ==
  last.op = "choose"
    => LET pd == DomainNamed(last.page)
           Rejected(d) == d = << >> \/ d \in AD_HOST_SKIP \/ d = pd
           hd == _etld1_from_host(_host_from_hint(last.hint))
           cd == DomainNamed(last.click)
       IN /\ (Rejected(hd) /\ Rejected(cd))
               => (last.host = << >> /\ last.domain = << >>)
          /\ (Rejected(hd) /\ ~Rejected(cd))
               => last.host = _host_from_url(UrlOf(last.click))

\* C16: when the hint and the click URL both resolve to acceptable domains
\* (not empty, not in AD_HOST_SKIP, not the page's) and the two differ,
\* _choose_advertiser returns the hint's host and domain.
C16_HintPrecedence ==
  last.op = "choose"
    => LET pd == DomainNamed(last.page)
           Acceptable(d) == d # << >> /\ d \notin AD_HOST_SKIP /\ d # pd
           hh == _host_from_hint(last.hint)
           hd == _etld1_from_host(hh)
           cd == DomainNamed(last.click)
       IN (Acceptable(hd) /\ Acceptable(cd) /\ hd # cd)
            => (last.host = hh /\ last.domain = hd)

\* A hint on one advertiser's domain, a click URL on another's, on a page
\* of a third: the hint's host came back.
C16_Witness ==
  /\ last.op = "choose"
  /\ last.page # NoParts
  /\ last.click # NoParts
  /\ DomainNamed(last.click) = << "example", "com" >>
  /\ last.host = << "brand", "mn" >>
  /\ last.domain = << "brand", "mn" >>

\* C17: _host_from_url returns the URL's host, lower-cased and without the
\* port, and "" for empty input and for a URL urlparse refuses.
C17_HostOf ==
  last.op = "host_of"
    => last.host = IF UrlparseRaises(UrlOf(last.url)) THEN << >>
                   ELSE HostNamed(last.url)

\* The banner_ids of a file's lines that _load takes as records.
FileKeys(file) ==
  {Get(file.lines[i], "banner_id") : i \in 1..Len(file.lines)} \ {""}

\* C18: no step loses a record: observe_image keeps every banner_id of
\* rows, save() writes every banner_id of rows and keeps every one the file
\* held, a ledger constructed on a file holds every banner_id of the file,
\* and constructed right after save() it holds the very records saved.
C18_NeverDeleted ==
  [][/\ ObserveStep => Keys(rows) \subseteq Keys(rows')
     /\ last'.op = "save"
          => /\ Keys(rows') = Keys(rows)
             /\ FileKeys(store') = Keys(rows)
             /\ FileKeys(store) \subseteq FileKeys(store')
     /\ last'.op = "load" => FileKeys(store) \subseteq Keys(rows')
     /\ (last.op = "save" /\ last'.op = "load") => rows' = rows]_vars

\* A ledger of two records, one of them last matched by its digest, was
\* saved and constructed again from the file.
C18_Witness ==
  /\ last.op = "load"
  /\ Len(rows) >= 2
  /\ rows = store.lines
  /\ \E i \in 1..Len(rows) : rows[i].matches = "exact"

\* The columns that hold plain strings.
StringColumns == {"banner_id", "site", "days_seen", "example_path", "md5", "matches"}

\* C19: every save() that no I/O error cuts short writes every record of
\* rows, in order, each with exactly the columns LEDGER_FIELDS and the values
\* the record holds, the empty string where the record holds None; a record
\* loaded from a file without some column holds the empty string there, and
\* every record of rows has all the columns of LEDGER_FIELDS.
C19_FixedSchema ==
  [][/\ last'.op \in {"save", "saveinvalid"}
          => /\ Len(store'.lines) = Len(rows)
             /\ \A i \in 1..Len(rows) :
                  /\ Columns(store'.lines[i]) = FieldSet
                  /\ store'.lines[i].nones = {}
                  /\ \A k \in FieldSet : store'.lines[i][k] = rows[i][k]
     /\ last'.op = "load"
          => \A i \in 1..Len(store.lines) :
               LET bid == Get(store.lines[i], "banner_id")
               IN bid # ""
                    => \A k \in StringColumns \ Columns(store.lines[i]) :
                         /\ RowOf(rows', bid)[k] = ""
                         /\ k \notin RowOf(rows', bid).nones
     /\ \A i \in 1..Len(rows') : FieldSet \subseteq Columns(rows'[i])]_vars

\* C20: when the digest of the observed image is a key of _by_md5,
\* observe_image returns the banner_id that key maps to with match type
\* "exact", whatever the similarity hashes of the records.
C20_ExactFirst ==
  [][(/\ ObserveStep
      /\ Decodable(last'.img)
      /\ _md5_short(last'.img) \in DOMAIN by_md5)
       => /\ last'.op = "observe"
          /\ last'.bid = by_md5[_md5_short(last'.img)]
          /\ last'.mtype = "exact"]_vars

\* An exact match into a record while another record's similarity hash was
\* nearer to the image's than the selected record's own.
C20_Witness ==
  /\ last.op = "observe"
  /\ last.mtype = "exact"
  /\ last.prevPhash # NoHash
  /\ \E i \in 1..Len(rows) :
       /\ rows[i].banner_id # last.bid
       /\ rows[i].phash # NoHash
       /\ _phash_dist(_phash_hex(last.img), rows[i].phash)
            < _phash_dist(_phash_hex(last.img), last.prevPhash)
       /\ _phash_dist(_phash_hex(last.img), rows[i].phash) <= MAX_HASH_DISTANCE

\* C21: when the digest of the observed image is not a key of _by_md5 and its
\* similarity hash is not a key of _by_phash, the call selects the record
\* whose hash is nearest to the incoming one exactly when that distance is at
\* most MAX_HASH_DISTANCE, the first in rows order among the nearest, and
\* answers "near"; otherwise it answers "new".
Nearest(rs, ph) ==
  {i \in 1..Len(rs) :
     /\ rs[i].phash # NoHash
     /\ \A j \in 1..Len(rs) :
          rs[j].phash # NoHash =>
            _phash_dist(ph, rs[i].phash) <= _phash_dist(ph, rs[j].phash)}

C21_NearSelection ==
  [][(/\ ObserveStep
      /\ last'.op = "observe"
      /\ _md5_short(last'.img) \notin DOMAIN by_md5
      /\ _phash_hex(last'.img) \notin DOMAIN by_phash) =>
     LET ph == _phash_hex(last'.img)
         nearest == Nearest(rows, ph)
     IN IF \E i \in nearest : _phash_dist(ph, rows[i].phash) <= MAX_HASH_DISTANCE
        THEN /\ last'.mtype = "near"
             /\ last'.bid =
                  rows[CHOOSE i \in nearest : \A j \in nearest : i <= j].banner_id
        ELSE last'.mtype = "new"]_vars

\* C21: two records with hashes eight bits apart, and a third image four bits
\* from each was observed and merged into the first of them.
C21_Witness ==
  /\ nobs = 3
  /\ last.op = "observe"
  /\ last.mtype = "near"
  /\ Len(rows) = 2
  /\ rows[1].banner_id = last.bid
  /\ _phash_dist(_phash_hex(last.img), last.prevPhash) =
       _phash_dist(_phash_hex(last.img), rows[2].phash)
  /\ _phash_dist(_phash_hex(last.img), last.prevPhash) <= MAX_HASH_DISTANCE
  /\ last.prevPhash # _phash_hex(last.img)

\* C22: an observe_image call that matches an existing record (exact or
\* near) leaves each of site, example_path, source_host, iframe_host and
\* page_domain as it was when it was non-empty, and sets it to the value of
\* this observation when it was empty.
C22_FirstWins ==
  [][(ObserveStep /\ last'.op = "observe" /\ last'.mtype \in {"exact", "near"}) =>
     LET old == RowOf(rows, last'.bid)
         new == RowOf(rows', last'.bid)
         ctx == last'.ctx
     IN /\ new.site = IF old.site # "" THEN old.site ELSE last'.site
        /\ new.example_path = IF old.example_path # "" THEN old.example_path
                               ELSE ctx.example_path
        /\ new.source_host = IF old.source_host # << >> THEN old.source_host
                              ELSE _host_from_url(ctx.asset_url)
        /\ new.iframe_host = IF old.iframe_host # << >> THEN old.iframe_host
                              ELSE _host_from_url(ctx.iframe_src)
        /\ new.page_domain = IF old.page_domain # << >> THEN old.page_domain
                              ELSE _etld1_from_host(_host_from_url(ctx.page_url))]_vars

\* C22: a record that holds all five fields was matched by an observation
\* from another site whose path, asset host, iframe host and page domain are
\* all non-empty and all differ from the record's.
C22_Witness ==
  /\ last.op = "observe"
  /\ last.mtype \in {"exact", "near"}
  /\ LET row == RowOf(rows, last.bid)
         ctx == last.ctx
     IN /\ row.site \notin {"", last.site}
        /\ ctx.example_path # ""
        /\ row.example_path \notin {"", ctx.example_path}
        /\ _host_from_url(ctx.asset_url) # << >>
        /\ row.source_host \notin {<< >>, _host_from_url(ctx.asset_url)}
        /\ _host_from_url(ctx.iframe_src) # << >>
        /\ row.iframe_host \notin {<< >>, _host_from_url(ctx.iframe_src)}
        /\ _host_from_url(ctx.page_url) # << >>
        /\ row.page_domain \notin
             {<< >>, _etld1_from_host(_host_from_url(ctx.page_url))}

\* C23: after an observe_image call that matches an existing record, the
\* dates in the record's seen_dates are those it held before together with
\* the date of the call, each once and in strictly ascending order.
C23_SeenDatesMerge ==
  [][(ObserveStep /\ last'.op = "observe" /\ last'.mtype \in {"exact", "near"}) =>
     LET old == RowOf(rows, last'.bid).seen_dates
         new == RowOf(rows', last'.bid).seen_dates
     IN /\ SplitDates(new) = SplitDates(old) \cup {last'.date}
        /\ \A i \in 1..Len(new) : new[i] # NoDate
        /\ \A i \in 1..(Len(new) - 1) : new[i] < new[i + 1]]_vars

\* C23: a record seen on two days was matched on a third day that lies
\* before the later of the two.
C23_Witness ==
  /\ last.op = "observe"
  /\ last.mtype \in {"exact", "near"}
  /\ Len(last.prevDates) = 2
  /\ last.date < last.prevDates[2]
  /\ \A i \in 1..2 : last.prevDates[i] # last.date
  /\ Len(RowOf(rows, last.bid).seen_dates) = 3

\* C24: across an observe_image call that matches an existing record,
\* advertiser_hosts_all and advertiser_domains_all only grow at the end: an
\* empty resolution and a value already listed leave the list as it was, a
\* value not yet listed is appended.
Grown(old, new, value) ==
  /\ Len(old) <= Len(new)
  /\ SubSeq(new, 1, Len(old)) = old
  /\ new = IF value = << >> \/ (\E i \in 1..Len(old) : old[i] = value) THEN old
           ELSE Append(old, value)
  /\ \A i, j \in 1..Len(new) : new[i] = new[j] => i = j

C24_AppendOnly ==
  [][(ObserveStep /\ last'.op = "observe" /\ last'.mtype \in {"exact", "near"}) =>
     LET old == RowOf(rows, last'.bid)
         new == RowOf(rows', last'.bid)
         ctx == last'.ctx
         adv == _choose_advertiser(ctx.advertiser_hint, ctx.click_url, ctx.page_url)
     IN /\ Grown(old.advertiser_hosts_all, new.advertiser_hosts_all, adv.host)
        /\ Grown(old.advertiser_domains_all, new.advertiser_domains_all,
                 adv.domain)]_vars

\* C24: a record that lists two advertisers was matched by an observation
\* that resolves to the first of them.
C24_Witness ==
  /\ last.op = "observe"
  /\ last.mtype \in {"exact", "near"}
  /\ LET row == RowOf(rows, last.bid)
         ctx == last.ctx
         adv == _choose_advertiser(ctx.advertiser_hint, ctx.click_url, ctx.page_url)
     IN /\ Len(row.advertiser_hosts_all) = 2
        /\ Len(row.advertiser_domains_all) = 2
        /\ adv.host = row.advertiser_hosts_all[1]
        /\ adv.domain = row.advertiser_domains_all[1]

\* C25: an observe_image call that matches an existing record leaves the
\* record's advertiser_host and advertiser_domain as they were when the
\* call's advertiser resolution is empty, and sets them to the resolved host
\* and domain when it is not.
C25_AttributionOverwrite ==
  [][(ObserveStep /\ last'.op = "observe" /\ last'.mtype \in {"exact", "near"}) =>
     LET old == RowOf(rows, last'.bid)
         new == RowOf(rows', last'.bid)
         ctx == last'.ctx
         adv == _choose_advertiser(ctx.advertiser_hint, ctx.click_url, ctx.page_url)
     IN IF adv.host = << >> /\ adv.domain = << >>
        THEN /\ new.advertiser_host = old.advertiser_host
             /\ new.advertiser_domain = old.advertiser_domain
        ELSE /\ adv.host # << >>
             /\ adv.domain # << >>
             /\ new.advertiser_host = adv.host
             /\ new.advertiser_domain = adv.domain]_vars

\* C25: a record attributed to one advertiser was matched by an observation
\* resolving to another, and the one after it by an observation resolving to
\* none.
C25_Witness ==
  /\ last.op = "observe"
  /\ last.mtype \in {"exact", "near"}
  /\ LET row == RowOf(rows, last.bid)
         ctx == last.ctx
         adv == _choose_advertiser(ctx.advertiser_hint, ctx.click_url, ctx.page_url)
     IN /\ adv.host = << >>
        /\ Len(row.advertiser_hosts_all) = 2
        /\ row.advertiser_host = row.advertiser_hosts_all[2]
        /\ row.advertiser_domain = row.advertiser_domains_all[2]

\* C26: after an observe_image call that returned, the record it selected
\* holds the digest and the similarity hash of the image just observed, and
\* its matches column holds the match type the call returned.
C26_Refreshed ==
  last.op = "observe" =>
    LET row == RowOf(rows, last.bid)
    IN /\ row.md5 = _md5_short(last.img)
       /\ row.phash = _phash_hex(last.img)
       /\ row.matches = last.mtype

\* C26: an image was matched by its digest to a record that had since taken
\* the digest and hash of another image.
C26_Witness ==
  /\ last.op = "observe"
  /\ last.mtype = "exact"
  /\ last.prevPhash # NoHash
  /\ last.prevPhash # _phash_hex(last.img)
  /\ last.prev.op = "observe"
  /\ last.prev.mtype = "near"
  /\ last.prev.bid = last.bid

\* C27: after an observe_image call of a scraper run has raised on
\* undecodable bytes, the run goes on with the same ledger, so that its
\* remaining observations and its final save() follow.
C27_FailureContained == last.op \in {"raise", "abort"} => Live

\* C28: whenever observe_image returns "near", the hash of the observed image
\* is within MAX_HASH_DISTANCE of the hash the selected record held just
\* before the call.
C28_NearWithinThreshold ==
  (last.op = "observe" /\ last.mtype = "near") =>
    /\ last.prevPhash # NoHash
    /\ _phash_dist(_phash_hex(last.img), last.prevPhash) <= MAX_HASH_DISTANCE

\* C29: as long as the instance is not replaced by a newly constructed one,
\* a key of _by_md5 or of _by_phash stays a key and keeps the banner_id it
\* maps to, and observe_image of an image whose digest is a key returns
\* that banner_id with match type "exact".
Kept(index, index2) ==
  \A k \in DOMAIN index : k \in DOMAIN index2 /\ index2[k] = index[k]

C29_IndexStable ==
  [][last'.op \notin {"load", "loadraise"} =>
     /\ Kept(by_md5, by_md5')
     /\ Kept(by_phash, by_phash')
     /\ (ObserveStep /\ last'.op = "observe"
           /\ _md5_short(last'.img) \in DOMAIN by_md5) =>
          /\ last'.bid = by_md5[_md5_short(last'.img)]
          /\ last'.mtype = "exact"]_vars

\* C29: an image was matched by its digest to a record that has moved on to
\* another digest and hash since, both indexes still holding the keys the
\* record left behind, with another image observed in between.
C29_Witness ==
  /\ last.op = "observe"
  /\ last.mtype = "exact"
  /\ last.prev.op = "observe"
  /\ last.prev.img # last.img
  /\ LET row == RowOf(rows, last.bid)
     IN /\ \E k \in DOMAIN by_md5 : by_md5[k] = last.bid /\ k # row.md5
        /\ \E k \in DOMAIN by_phash : by_phash[k] = last.bid /\ k # row.phash

\* C30: in every record of a ledger built from empty by observe_image calls,
\* advertiser_host is empty exactly when advertiser_domain is; when they are
\* not, they are the host and domain one observation resolved to, the domain
\* is the registrable domain of the host, and each is listed in its
\* advertiser_..._all column.
Listed(list, value) == \E j \in 1..Len(list) : list[j] = value

C30_AttributionConsistent ==
  \A i \in 1..Len(rows) :
    LET row == rows[i]
    IN /\ (row.advertiser_host = << >>) <=> (row.advertiser_domain = << >>)
       /\ row.advertiser_host # << >> =>
            /\ \E c \in CtxCalls :
                 LET adv == _choose_advertiser(c.ctx.advertiser_hint,
                                               c.ctx.click_url, c.ctx.page_url)
                 IN adv.host = row.advertiser_host
                    /\ adv.domain = row.advertiser_domain
            /\ row.advertiser_domain = _etld1_from_host(row.advertiser_host)
            /\ Listed(row.advertiser_hosts_all, row.advertiser_host)
            /\ Listed(row.advertiser_domains_all, row.advertiser_domain)

\* C30: a record attributed to three advertisers in turn, the current one
\* being the last listed.
C30_Witness ==
  \E i \in 1..Len(rows) :
    /\ Len(rows[i].advertiser_hosts_all) = 3
    /\ Len(rows[i].advertiser_domains_all) = 3
    /\ rows[i].advertiser_host = rows[i].advertiser_hosts_all[3]
    /\ rows[i].advertiser_domain = rows[i].advertiser_domains_all[3]
====
